---- MODULE Spec2Model ----
(***************************************************************************)
(* JinaAPIClient (superduperdb/ext/jina/client.py): construction with the  *)
(* API-key lookup, the blocking encode_batch and the suspendable           *)
(* aencode_batch, both wrapped by the module-level `retry`.                *)
(*                                                                         *)
(* Retry (superduperdb.misc.retry) and get_key (superduperdb.ext.utils)    *)
(* are imported by client.py; their bodies are modelled from the           *)
(* specification's sections 4.1 and 4.2.  requests and aiohttp are the     *)
(* transports: an attempt's transport outcome is an input of the model.    *)
(***************************************************************************)
EXTENDS Integers, Sequences, FiniteSets, TLC

\* ------------------------------------------------------------------ bounds
MaxAttempts == 3
MaxLen == 2

\* --------------------------------------------------------------- constants
DefaultModelName == "jina-embeddings-v2-base-en"

\* The tuple widened to Exception: every error an attempt can raise.
exception_types_Exception ==
    {"ClientResponseError", "ClientConnectionError", "HTTPError",
     "RuntimeError", "KeyError", "ConnectionError"}

\* The tuple widened to BaseException: cancellation included.
exception_types_BaseException ==
    {"ClientResponseError", "ClientConnectionError", "HTTPError",
     "CancelledError"}

\* retry = Retry(exception_types=(ClientResponseError, ClientConnectionError, HTTPError))
exception_types == {"ClientResponseError", "ClientConnectionError", "HTTPError"}

CallIds == {"c1", "c2"}
Strings == {"a", "b"}
Statuses == {200, 429, 503}
Unset == "<unset>"
ExplicitKeys == {Unset, "", "k1"}
EnvValues == {Unset, "", "kenv"}

VARIABLES
    env,     \* the JINA_API_KEY value get_key looks up (line 32)
    client,  \* the JinaAPIClient object: model_name, _session, _headers (lines 34-41)
    ctor,    \* the last call of __init__: its api_key argument and how it ended
    calls,   \* the calls of encode_batch / aencode_batch in progress
    script   \* the transport's outcome per attempt, when it is fixed ahead

vars == <<env, client, ctor, calls, script>>

\* ------------------------------------------------------------------ errors
Err(type, msg, status) == [type |-> type, msg |-> msg, status |-> status]
NoErr == Err("none", "", 0)

\* ---------------------------------------------------------------- responses
Item(index, embedding) == [index |-> index, embedding |-> embedding]

\* The remote service's vector for one text (opaque to the client).
Embedding(t) == IF t = "a" THEN <<1>> ELSE IF t = "b" THEN <<2>> ELSE <<0>>

Batches == UNION {[1..n -> Strings] : n \in 1..MaxLen}

Perms(n) == {p \in [1..n -> 1..n] : \A i, j \in 1..n : p[i] = p[j] => i = j}

\* data of a well-behaved service: one item per input, in any order.
WellBehavedData(texts) ==
    {[k \in 1..Len(texts) |-> Item(p[k] - 1, Embedding(texts[p[k]]))] :
        p \in Perms(Len(texts))}

\* data of a misbehaving service: an item missing, every index the same,
\* an item too many (sent first, with the highest index).
MalformedData(texts) ==
    { [k \in 1..(Len(texts) - 1) |-> Item(k - 1, Embedding(texts[k]))],
      [k \in 1..Len(texts) |-> Item(0, Embedding(texts[k]))],
      <<Item(Len(texts), <<9>>)>>
          \o [k \in 1..Len(texts) |-> Item(k - 1, Embedding(texts[k]))] }

DataBody(d) == [hasData |-> TRUE, data |-> d, hasDetail |-> FALSE, detail |-> ""]
DetailBody(m) == [hasData |-> FALSE, data |-> <<>>, hasDetail |-> TRUE, detail |-> m]
EmptyBody == [hasData |-> FALSE, data |-> <<>>, hasDetail |-> FALSE, detail |-> ""]

Bodies(texts) ==
    {DataBody(d) : d \in WellBehavedData(texts) \cup MalformedData(texts)}
        \cup {DetailBody("invalid model"), EmptyBody}

\* What the transport does with one request: the connection fails, or a
\* response with a status and a JSON body arrives.
ConnFail == [kind |-> "connfail", status |-> 0, body |-> EmptyBody]
Response(status, body) == [kind |-> "response", status |-> status, body |-> body]
TransportOutcomes(texts) ==
    {ConnFail} \cup {Response(s, b) : s \in Statuses, b \in Bodies(texts)}

\* aiohttp.ClientSession() is built with the library's default total timeout:
\* the request may also end with asyncio's TimeoutError.  (A connect timeout
\* is a ClientConnectionError, i.e. ConnFail.)  self._session.post is called
\* without a timeout, so requests enforces none.
TimedOut == [kind |-> "timeout", status |-> 0, body |-> EmptyBody]
AsyncTransportOutcomes(texts) == TransportOutcomes(texts) \cup {TimedOut}

\* ------------------------------------------------------------------ sorting
\* The items kept in a mapping from index to item: an item replaces the one
\* that carries the same index.
InsertByIndex_Unique(sorted, e) ==
    LET Below(x) == x["index"] < e["index"]
        Above(x) == x["index"] > e["index"]
    IN SelectSeq(sorted, Below) \o <<e>> \o SelectSeq(sorted, Above)

\* An ordering that is not stable: an item goes before the items that
\* carry the same index.
InsertByIndex_Unstable(sorted, e) ==
    LET Below(x) == x["index"] < e["index"]
        NotBelow(x) == x["index"] >= e["index"]
    IN SelectSeq(sorted, Below) \o <<e>> \o SelectSeq(sorted, NotBelow)

\* sorted(data, key=lambda e: e["index"]): Python's sort is stable.
RECURSIVE InsertByIndex(_, _)
InsertByIndex(sorted, e) ==
    IF sorted = <<>> THEN <<e>>
    ELSE IF sorted[Len(sorted)]["index"] <= e["index"] THEN Append(sorted, e)
    ELSE Append(InsertByIndex(SubSeq(sorted, 1, Len(sorted) - 1), e),
                sorted[Len(sorted)])

\* The response's items taken in the order the service sent them.
SortedByIndex_NoSort(data) == data

RECURSIVE SortedByIndex(_)
SortedByIndex(data) ==
    IF data = <<>> THEN <<>>
    ELSE InsertByIndex(SortedByIndex(SubSeq(data, 1, Len(data) - 1)),
                       data[Len(data)])

Embeddings(sorted_embeddings) ==
    [k \in 1..Len(sorted_embeddings) |-> sorted_embeddings[k].embedding]

\* ------------------------------------------------------------- construction
NoClient ==
    [exists |-> FALSE, model_name |-> "", session |-> FALSE,
     headers |-> [Authorization |-> "", AcceptEncoding |-> "", ContentType |-> ""]]

\* get_key(KEY_NAME): the value of the environment-style lookup, or
\* MissingCredentialError when the lookup yields no value.
get_key(e) ==
    IF e = Unset \/ e = ""
    THEN [ok |-> FALSE, value |-> "", error |-> "MissingCredentialError"]
    ELSE [ok |-> TRUE, value |-> e, error |-> "none"]

\* The constructor without its `api_key is None` test.
ResolveKey_NoLookup(api_key, e) == [ok |-> TRUE, value |-> api_key, error |-> "none"]

\* __init__, lines 31-32: which key the constructor resolves.
ResolveKey(api_key, e) ==
    IF api_key = Unset
    THEN get_key(e)
    ELSE [ok |-> TRUE, value |-> api_key, error |-> "none"]

\* __init__, lines 34-41: the object built from a resolved key.
NewClient(api_key, model_name) ==
    [exists |-> TRUE, model_name |-> model_name, session |-> TRUE,
     headers |-> [Authorization |-> "Bearer " \o api_key,
                  AcceptEncoding |-> "identity",
                  ContentType |-> "application/json"]]

\* JinaAPIClient(api_key, model_name)
Construct(api_key, model_name) ==
    /\ ~client.exists
    /\ LET k == ResolveKey(api_key, env) IN
         /\ client' = IF k.ok THEN NewClient(k.value, model_name) ELSE client
         /\ ctor' = [called |-> TRUE, api_key |-> api_key, error |-> k.error]
    /\ UNCHANGED <<env, calls, script>>

\* -------------------------------------------------------------------- calls
NoOutcome == [kind |-> "none", value |-> <<>>, err |-> NoErr, wrapped |-> NoErr]
Returned(v) == [kind |-> "result", value |-> v, err |-> NoErr, wrapped |-> NoErr]
Raised(e, w) == [kind |-> "error", value |-> <<>>, err |-> e, wrapped |-> w]

IdleCall ==
    [mode |-> "none", texts |-> <<>>, pc |-> "idle", attempts |-> 0,
     session |-> FALSE, body |-> EmptyBody, hist |-> <<>>,
     outcome |-> NoOutcome, cancelledAt |-> ""]

\* One attempt as the caller of the wrapped function sees it.
Ok(v) == [ok |-> TRUE, value |-> v, err |-> NoErr]
Fail(e) == [ok |-> FALSE, value |-> <<>>, err |-> e]

\* encode_batch, lines 48-54, on the parsed body `response`.
encode_batch_result(response) ==
    IF ~response.hasData
    THEN IF response.hasDetail
         THEN Fail(Err("RuntimeError", response.detail, 0))
         ELSE Fail(Err("KeyError", "detail", 0))
    ELSE Ok(Embeddings(SortedByIndex(response.data)))

\* encode_batch, lines 45-54: self._session.post(...).json() and the rest.
\* requests raises its own ConnectionError; no status check is made.
encode_batch(o) ==
    IF o.kind = "connfail"
    THEN Fail(Err("ConnectionError", "", 0))
    ELSE encode_batch_result(o.body)

\* aencode_batch, line 69: response.raise_for_status().
raise_for_status(status) ==
    IF status >= 400 THEN Err("ClientResponseError", "", status) ELSE NoErr

\* aencode_batch, lines 64-69: session.post(...) and the status check.
aencode_batch_post(o) ==
    IF o.kind = "connfail"
    THEN Err("ClientConnectionError", "", 0)
    ELSE IF o.kind = "timeout"
    THEN Err("TimeoutError", "", 0)
    ELSE raise_for_status(o.status)

\* aencode_batch, lines 71-79, on the parsed body `response_json`.
aencode_batch_result(response_json) ==
    IF ~response_json.hasData
    THEN IF response_json.hasDetail
         THEN Fail(Err("RuntimeError", response_json.detail, 0))
         ELSE Fail(Err("KeyError", "detail", 0))
    ELSE Ok(Embeddings(SortedByIndex(response_json.data)))

\* A policy that counts the retries, not the attempts: it allows one more.
RetryDecision_OneMore(e, attempts) ==
    IF e.type \in exception_types
    THEN IF attempts <= MaxAttempts THEN "retry" ELSE "exhausted"
    ELSE "propagate"

\* Retry: what the policy does with an error raised by attempt number
\* `attempts` (the first attempt included).
RetryDecision(e, attempts) ==
    IF e.type \in exception_types
    THEN IF attempts < MaxAttempts THEN "retry" ELSE "exhausted"
    ELSE "propagate"

\* Retry: the wrapped call after an attempt has raised e.
AfterRaise(call, e) ==
    LET d == RetryDecision(e, call.attempts) IN
    IF d = "retry"
    THEN [call EXCEPT !.pc = "backoff"]
    ELSE IF d = "exhausted"
    THEN [call EXCEPT !.pc = "done",
            !.outcome = Raised(Err("RetryExhaustedError", "", 0), e)]
    ELSE [call EXCEPT !.pc = "done", !.outcome = Raised(e, NoErr)]

\* Retry: the wrapped call after an attempt has returned v.
AfterReturn(call, v) ==
    [call EXCEPT !.pc = "done", !.outcome = Returned(v)]

\* What one attempt did, for the record: the transport's outcome, the body
\* when the attempt read it, and the error the attempt raised, if any.
Entry(o, e) == [kind |-> o.kind, status |-> o.status, body |-> o.body, err |-> e]

\* A response whose body the attempt never reads.
Unread(o) == [o EXCEPT !.body = EmptyBody]

\* The session of an attempt that leaves it without closing it.
CloseSession_Leak(call) == call

\* aencode_batch, line 58: `async with aiohttp.ClientSession() as session`
\* closes the attempt's session however the block is left.
CloseSession(call) == [call EXCEPT !.session = FALSE]

\* Calls are issued one after the other here: the caller takes the outcome
\* of a call (Return) before it issues the next one.
Exclusive(c) == \A d \in CallIds \ {c} : calls[d].pc = "idle"

Begin(c, mode, texts) ==
    /\ client.exists
    /\ calls[c].pc = "idle"
    /\ Exclusive(c)
    /\ calls' = [calls EXCEPT ![c] =
                    [IdleCall EXCEPT !.mode = mode, !.texts = texts, !.pc = "attempt"]]
    /\ UNCHANGED <<env, client, ctor, script>>

\* client.encode_batch(texts) is called.
StartSync(c, texts) == Begin(c, "sync", texts)

\* client.aencode_batch(texts) is called and its coroutine scheduled.
StartAsync(c, texts) == Begin(c, "async", texts)

\* One attempt of encode_batch (lines 45-54) and the policy's reaction.
SyncAttempt(c, o) ==
    /\ calls[c].mode = "sync"
    /\ calls[c].pc = "attempt"
    /\ LET r == encode_batch(o)
           call == [calls[c] EXCEPT
                      !.attempts = @ + 1,
                      !.body = o.body,
                      !.hist = Append(@, Entry(o, r.err))]
       IN calls' = [calls EXCEPT ![c] =
                      IF r.ok THEN AfterReturn(call, r.value)
                              ELSE AfterRaise(call, r.err)]
    /\ UNCHANGED <<env, client, ctor, script>>

\* aencode_batch, lines 58-68: the attempt opens its ClientSession, posts
\* the request and suspends until the transport answers.
AsyncOpen(c) ==
    /\ calls[c].mode = "async"
    /\ calls[c].pc = "attempt"
    /\ calls' = [calls EXCEPT ![c] =
                    [@ EXCEPT !.pc = "awaitPost", !.session = TRUE,
                              !.attempts = @ + 1]]
    /\ UNCHANGED <<env, client, ctor, script>>

\* aencode_batch, lines 64-70: the transport answers; raise_for_status, then
\* the attempt suspends on response.json().
AsyncPostDone(c, o) ==
    /\ calls[c].mode = "async"
    /\ calls[c].pc = "awaitPost"
    /\ LET e == aencode_batch_post(o)
           call == [calls[c] EXCEPT
                      !.body = o.body,
                      !.hist = Append(@, IF e = NoErr THEN Entry(o, e)
                                                      ELSE Entry(Unread(o), e))]
       IN calls' = [calls EXCEPT ![c] =
                      IF e = NoErr THEN [call EXCEPT !.pc = "awaitJson"]
                                   ELSE AfterRaise(CloseSession(call), e)]
    /\ UNCHANGED <<env, client, ctor, script>>

\* The parsed body kept where every call of the client can overwrite it:
\* the attempt goes on with whichever response was stored last.
AsyncJsonDone_SharedResponse(c) ==
    /\ calls[c].mode = "async"
    /\ calls[c].pc = "awaitJson"
    /\ \E d \in CallIds :
        /\ calls[d].pc = "awaitJson"
        /\ LET r == aencode_batch_result(calls[d].body)
               n == Len(calls[c].hist)
               call == [calls[c] EXCEPT !.hist[n].err = r.err]
           IN calls' = [calls EXCEPT ![c] =
                          IF r.ok THEN AfterReturn(CloseSession(call), r.value)
                                  ELSE AfterRaise(CloseSession(call), r.err)]
    /\ UNCHANGED <<env, client, ctor, script>>

\* aencode_batch, lines 70-79: the body is read; the rest of the attempt.
AsyncJsonDone(c) ==
    /\ calls[c].mode = "async"
    /\ calls[c].pc = "awaitJson"
    /\ LET r == aencode_batch_result(calls[c].body)
           n == Len(calls[c].hist)
           call == [calls[c] EXCEPT !.hist[n].err = r.err]
       IN calls' = [calls EXCEPT ![c] =
                      IF r.ok THEN AfterReturn(CloseSession(call), r.value)
                              ELSE AfterRaise(CloseSession(call), r.err)]
    /\ UNCHANGED <<env, client, ctor, script>>

\* Retry: the backoff delay elapses and the next attempt starts.
Backoff(c) ==
    /\ calls[c].pc = "backoff"
    /\ calls' = [calls EXCEPT ![c].pc = "attempt"]
    /\ UNCHANGED <<env, client, ctor, script>>

SuspensionPoints == {"awaitPost", "awaitJson", "backoff"}

\* The task running aencode_batch is cancelled: CancelledError is raised at
\* the await the coroutine is suspended on.
Cancel(c) ==
    /\ calls[c].mode = "async"
    /\ calls[c].pc \in SuspensionPoints
    /\ calls' = [calls EXCEPT ![c] =
                    AfterRaise(CloseSession([@ EXCEPT !.cancelledAt = calls[c].pc]),
                               Err("CancelledError", "", 0))]
    /\ UNCHANGED <<env, client, ctor, script>>

\* The caller has the call's outcome; the per-call objects are discarded.
Return(c) ==
    /\ calls[c].pc = "done"
    /\ calls' = [calls EXCEPT ![c] = IdleCall]
    /\ UNCHANGED <<env, client, ctor, script>>

Init ==
    /\ env \in EnvValues
    /\ client = NoClient
    /\ ctor = [called |-> FALSE, api_key |-> Unset, error |-> "none"]
    /\ calls = [c \in CallIds |-> IdleCall]
    /\ script = <<>>

Next ==
    \/ \E k \in ExplicitKeys : Construct(k, DefaultModelName)
    \/ \E c \in CallIds, texts \in Batches : StartSync(c, texts)
    \/ \E c \in CallIds, texts \in Batches : StartAsync(c, texts)
    \/ \E c \in CallIds : \E o \in TransportOutcomes(calls[c].texts) : SyncAttempt(c, o)
    \/ \E c \in CallIds : AsyncOpen(c)
    \/ \E c \in CallIds : \E o \in AsyncTransportOutcomes(calls[c].texts) : AsyncPostDone(c, o)
    \/ \E c \in CallIds : AsyncJsonDone(c)
    \/ \E c \in CallIds : Backoff(c)
    \/ \E c \in CallIds : Cancel(c)
    \/ \E c \in CallIds : Return(c)

Spec == Init /\ [][Next]_vars

\* ------------------------------------------------- the two operations paired
\* encode_batch (call c1) and aencode_batch (call c2) run on the same texts
\* against a transport that gives attempt number k of either call the
\* outcome script[k].
PairOutcomes(texts) ==
    {o \in TransportOutcomes(texts) :
        \/ o.kind = "connfail"
        \/ /\ o.status \in {200, 503}
           /\ o.body \in {DataBody(d) : d \in WellBehavedData(texts)}
                            \cup {DetailBody("invalid model")}}

InitPair ==
    /\ env = "kenv"
    /\ client = NewClient("k1", DefaultModelName)
    /\ ctor = [called |-> TRUE, api_key |-> "k1", error |-> "none"]
    /\ \E texts \in Batches :
        /\ calls = [c \in CallIds |->
                      [IdleCall EXCEPT !.mode = IF c = "c1" THEN "sync" ELSE "async",
                                       !.texts = texts, !.pc = "attempt"]]
        /\ script \in [1..MaxAttempts -> PairOutcomes(texts)]

NextPair ==
    \/ SyncAttempt("c1", script[calls["c1"].attempts + 1])
    \/ AsyncOpen("c2")
    \/ AsyncPostDone("c2", script[calls["c2"].attempts])
    \/ AsyncJsonDone("c2")
    \/ \E c \in CallIds : Backoff(c)

SpecPair == InitPair /\ [][NextPair]_vars

\* ------------------------------------------------------ any list of items
\* The two operations on a response whose `data` is any list of items:
\* indices in any order, repeated or missing, fewer or more items than texts.
AnyItems == {Item(i, Embedding(t)) : i \in 0..MaxLen, t \in Strings}
AnyData == UNION {[1..n -> AnyItems] : n \in 0..(MaxLen + 1)}

InitSort ==
    /\ env = "kenv"
    /\ client = NewClient("k1", DefaultModelName)
    /\ ctor = [called |-> TRUE, api_key |-> "k1", error |-> "none"]
    /\ calls = [c \in CallIds |->
                  [IdleCall EXCEPT !.mode = IF c = "c1" THEN "sync" ELSE "async",
                                   !.texts = <<"a", "b">>, !.pc = "attempt"]]
    /\ \E d \in AnyData : script = <<Response(200, DataBody(d))>>

NextSort ==
    \/ SyncAttempt("c1", script[1])
    \/ AsyncOpen("c2")
    \/ AsyncPostDone("c2", script[1])
    \/ AsyncJsonDone("c2")

SpecSort == InitSort /\ [][NextSort]_vars

\* ------------------------------------------------------- concurrent callers
\* Calls issued while other calls are in progress: encode_batch from several
\* threads, aencode_batch from several tasks.
CallConcurrently(c, mode, texts) ==
    /\ client.exists
    /\ calls[c].pc = "idle"
    /\ calls' = [calls EXCEPT ![c] =
                    [IdleCall EXCEPT !.mode = mode, !.texts = texts, !.pc = "attempt"]]
    /\ UNCHANGED <<env, client, ctor, script>>

\* The batches the concurrent callers submit and what the transport does
\* with each of their requests.
ConcBatches == {<<"a", "b">>, <<"b">>}

ConcOutcomes(texts) ==
    {ConnFail, Response(503, DetailBody("busy")),
     Response(200, DetailBody("invalid model"))}
        \cup {Response(200, DataBody(d)) : d \in WellBehavedData(texts)}

InitConc ==
    /\ env = "kenv"
    /\ client = NewClient("k1", DefaultModelName)
    /\ ctor = [called |-> TRUE, api_key |-> "k1", error |-> "none"]
    /\ calls = [c \in CallIds |-> IdleCall]
    /\ script = <<>>

NextConc ==
    \/ \E c \in CallIds, texts \in ConcBatches : CallConcurrently(c, "sync", texts)
    \/ \E c \in CallIds, texts \in ConcBatches : CallConcurrently(c, "async", texts)
    \/ \E c \in CallIds : \E o \in ConcOutcomes(calls[c].texts) : SyncAttempt(c, o)
    \/ \E c \in CallIds : AsyncOpen(c)
    \/ \E c \in CallIds : \E o \in ConcOutcomes(calls[c].texts) : AsyncPostDone(c, o)
    \/ \E c \in CallIds : AsyncJsonDone(c)
    \/ \E c \in CallIds : Backoff(c)
    \/ \E c \in CallIds : Cancel(c)
    \/ \E c \in CallIds : Return(c)

SpecConc == InitConc /\ [][NextConc]_vars

\* The transport answers every request and every wait of the policy ends:
\* a call that can take a step of its own eventually takes one.
Progress(c) ==
    \/ \E o \in ConcOutcomes(calls[c].texts) : SyncAttempt(c, o)
    \/ AsyncOpen(c)
    \/ \E o \in ConcOutcomes(calls[c].texts) : AsyncPostDone(c, o)
    \/ AsyncJsonDone(c)
    \/ Backoff(c)

SpecLive == SpecConc /\ \A c \in CallIds : WF_vars(Progress(c))

\* ------------------------------------------------- one thread, several tasks
\* Callers that are tasks of one event loop.  A task keeps the thread from
\* one await to the next; the steps of the model are those stretches.

\* A call that holds the thread for as long as it has not ended, whatever
\* it waits for.
Blocking_UntilDone(call) == call.pc \in {"attempt", "awaitPost", "awaitJson", "backoff"}

\* encode_batch (lines 44-54) has no await: from its call to its end,
\* the request and the waits between attempts included, the task that
\* called it keeps the thread.  aencode_batch gives the thread up at each
\* `async with` / `await` (lines 58, 64, 70) and in the policy's wait.
Blocking(call) == call.mode = "sync" /\ call.pc \in {"attempt", "backoff"}

\* The thread is not held by a call other than c.
ThreadFree(c) == \A d \in CallIds \ {c} : ~Blocking(calls[d])

NextLoop ==
    \/ \E c \in CallIds, texts \in ConcBatches :
          ThreadFree(c) /\ CallConcurrently(c, "sync", texts)
    \/ \E c \in CallIds, texts \in ConcBatches :
          ThreadFree(c) /\ CallConcurrently(c, "async", texts)
    \/ \E c \in CallIds : \E o \in ConcOutcomes(calls[c].texts) :
          ThreadFree(c) /\ SyncAttempt(c, o)
    \/ \E c \in CallIds : ThreadFree(c) /\ AsyncOpen(c)
    \/ \E c \in CallIds : \E o \in ConcOutcomes(calls[c].texts) :
          ThreadFree(c) /\ AsyncPostDone(c, o)
    \/ \E c \in CallIds : ThreadFree(c) /\ AsyncJsonDone(c)
    \/ \E c \in CallIds : ThreadFree(c) /\ Backoff(c)
    \/ \E c \in CallIds : ThreadFree(c) /\ Cancel(c)
    \/ \E c \in CallIds : ThreadFree(c) /\ Return(c)

SpecLoop == InitConc /\ [][NextLoop]_vars

\* ================================================================== claims
Finished(c) == calls[c].pc = "done" /\ calls[c].cancelledAt = ""
LastEntry(c) == calls[c].hist[Len(calls[c].hist)]

\* The transport's outcome of one attempt is a transient failure in the
\* specification's sense: the connection failed, or the response has an
\* error status (rate limit, 5xx).
TransientOutcome(entry) ==
    entry.kind = "connfail" \/ (entry.kind = "response" /\ entry.status >= 400)

\* data carries each index 0..len(texts)-1 exactly once.
IsPermutationData(data, texts) ==
    /\ Len(data) = Len(texts)
    /\ {data[k]["index"] : k \in 1..Len(data)} = 0..(Len(texts) - 1)

\* C1: when the answer to a call carries the indices 0..len(texts)-1 in any
\* order, encode_batch and aencode_batch return len(texts) embeddings, and
\* position i holds the embedding of the item with index i, which is the
\* embedding for texts[i].
C1_OrderRestored ==
    \A c \in CallIds :
        LET call == calls[c] IN
        (Finished(c) /\ IsPermutationData(call.body.data, call.texts)) =>
            /\ (LastEntry(c).status = 200 => call.outcome.kind = "result")
            /\ call.outcome.kind = "result" =>
                /\ Len(call.outcome.value) = Len(call.texts)
                /\ \A i \in 1..Len(call.texts) :
                    /\ call.outcome.value[i] = Embedding(call.texts[i])
                    /\ \A k \in 1..Len(call.body.data) :
                         call.body.data[k]["index"] = i - 1 =>
                            call.outcome.value[i] = call.body.data[k].embedding

\* C1 witness: an aencode_batch call returned for a two-text batch whose
\* response listed index 1 before index 0.
C1_Witness ==
    \E c \in CallIds :
        /\ Finished(c) /\ calls[c].mode = "async"
        /\ calls[c].outcome.kind = "result"
        /\ calls[c].texts = <<"a", "b">>
        /\ IsPermutationData(calls[c].body.data, calls[c].texts)
        /\ calls[c].body.data[1]["index"] = 1

\* C2: retry bound of both operations.  A finished call has invoked the
\* transport at most MaxAttempts times; after N < MaxAttempts transient
\* failures the call is still running or went on to another attempt; after
\* MaxAttempts transient failures it raised RetryExhaustedError with exactly
\* MaxAttempts invocations; N transient failures followed by a good answer
\* give the result.
C2_RetryBound ==
    \A c \in CallIds :
        LET call == calls[c]
            n == Len(call.hist)
            failures == {k \in 1..n : TransientOutcome(call.hist[k])}
        IN
        Finished(c) =>
            /\ call.attempts <= MaxAttempts
            /\ failures = 1..n =>
                /\ n = MaxAttempts
                /\ call.attempts = MaxAttempts
                /\ call.outcome.err.type = "RetryExhaustedError"
            /\ (failures = 1..(n - 1) /\ call.hist[n].status = 200
                    /\ call.body.hasData) =>
                /\ n - 1 < MaxAttempts
                /\ call.outcome.kind = "result"

\* C3: in both operations a connection failure or an error-status response
\* is retried while attempts remain and reaches the caller only wrapped as
\* RetryExhaustedError after the last attempt.
C3_TransportFailuresAreTransient ==
    \A c \in CallIds :
        LET call == calls[c] IN
        Finished(c) =>
            /\ \A k \in 1..Len(call.hist) :
                (TransientOutcome(call.hist[k]) /\ k < MaxAttempts) =>
                    k < Len(call.hist)
            /\ TransientOutcome(LastEntry(c)) =>
                /\ call.outcome.kind = "error"
                /\ call.outcome.err.type = "RetryExhaustedError"
                /\ call.outcome.wrapped = LastEntry(c).err

\* The transient set: the error kinds the retry policy is built with at
\* line 14 (aiohttp's two and requests' HTTPError).
TransientErrorKinds ==
    {"ClientResponseError", "ClientConnectionError", "HTTPError"}

\* An attempt raised an error outside the transient set.
NonTransientFailure(entry) ==
    entry.err # NoErr /\ entry.err.type \notin TransientErrorKinds

\* C4 as stated: whenever an attempt fails with an error outside the
\* transient set, the transport has been invoked exactly once in the call
\* and the error reaches the caller unmodified.
C4_AsStated ==
    \A c \in CallIds :
        \A k \in 1..Len(calls[c].hist) :
            NonTransientFailure(calls[c].hist[k]) =>
                /\ calls[c].attempts = 1
                /\ calls[c].outcome = Raised(calls[c].hist[k].err, NoErr)

\* C4 amended: an attempt that fails with an error outside the transient
\* set is the last attempt of its call: the transport is not invoked again
\* (so exactly once when it is the first attempt), the call is over, and the
\* error reaches the caller unmodified.
C4_NonTransientNotRetried ==
    \A c \in CallIds :
        \A k \in 1..Len(calls[c].hist) :
            NonTransientFailure(calls[c].hist[k]) =>
                /\ k = Len(calls[c].hist)
                /\ calls[c].attempts = k
                /\ calls[c].pc = "done"
                /\ calls[c].outcome = Raised(calls[c].hist[k].err, NoErr)

\* C4 witness: a call whose first answer lacked `data` is over after one
\* transport invocation, with the missing-data error.
C4_Witness ==
    \E c \in CallIds :
        /\ Finished(c)
        /\ calls[c].attempts = 1
        /\ LastEntry(c).kind = "response"
        /\ ~calls[c].body.hasData /\ calls[c].body.hasDetail
        /\ calls[c].outcome.err = Err("RuntimeError", calls[c].body.detail, 0)

\* The attempt got as far as looking for `data` in the parsed body.
BodyExamined(c) ==
    /\ Finished(c)
    /\ LastEntry(c).kind = "response"
    /\ (calls[c].mode = "async" => LastEntry(c).status < 400)

\* C6: a parsed body without `data` makes both operations fail with the
\* service error (RuntimeError in the code), whose message is the body's
\* `detail` when present; without `detail` the error is still the service
\* error, never another kind.
C6_MissingDataError ==
    \A c \in CallIds :
        (BodyExamined(c) /\ ~calls[c].body.hasData) =>
            /\ calls[c].outcome.kind = "error"
            /\ calls[c].outcome.err.type = "RuntimeError"
            /\ calls[c].body.hasDetail =>
                  calls[c].outcome.err.msg = calls[c].body.detail

\* C7: when every attempt of a call failed transiently, the caller gets
\* RetryExhaustedError wrapping the error of the last attempt.
C7_WrapsLastError ==
    \A c \in CallIds :
        LET call == calls[c] IN
        (Finished(c) /\ \A k \in 1..Len(call.hist) : TransientOutcome(call.hist[k])) =>
            /\ call.outcome.kind = "error"
            /\ call.outcome.err.type = "RetryExhaustedError"
            /\ call.outcome.wrapped = LastEntry(c).err
            /\ call.outcome.wrapped # NoErr

\* C8: a cancelled aencode_batch call is over with CancelledError itself
\* (not wrapped, not RetryExhaustedError), has made no attempt beyond those
\* made when it was cancelled, and has returned no embeddings.
C8_CancellationEndsCall ==
    \A c \in CallIds :
        LET call == calls[c] IN
        call.cancelledAt # "" =>
            /\ call.pc = "done"
            /\ call.outcome = Raised(Err("CancelledError", "", 0), NoErr)
            /\ call.outcome.value = <<>>
            /\ call.attempts =
                 Len(call.hist) + (IF call.cancelledAt = "awaitPost" THEN 1 ELSE 0)

\* C8 witness: a call cancelled during a retry backoff, after a failed attempt.
C8_Witness ==
    \E c \in CallIds :
        /\ calls[c].cancelledAt = "backoff"
        /\ calls[c].pc = "done"
        /\ calls[c].attempts >= 1

\* C9: construction without an explicit key and without JINA_API_KEY fails
\* with MissingCredentialError; when construction has failed no client
\* object exists and no request has been sent.
C9_MissingCredential ==
    /\ (ctor.called /\ ctor.api_key = Unset /\ env = Unset) =>
            ctor.error = "MissingCredentialError"
    /\ ctor.error = "MissingCredentialError" =>
            /\ client = NoClient
            /\ \A c \in CallIds : calls[c] = IdleCall

\* C9 witness: the constructor was called with neither source set.
C9_Witness ==
    /\ ctor.called /\ ctor.api_key = Unset /\ env = Unset
    /\ ctor.error = "MissingCredentialError"

\* C10: a constructed client's Authorization header carries a non-empty
\* key: the explicit key when it is non-empty, else the JINA_API_KEY value.
C10_KeyNonEmpty ==
    client.exists =>
        /\ client.headers.Authorization # "Bearer "
        /\ client.headers.Authorization =
             "Bearer " \o (IF ctor.api_key \notin {Unset, ""} THEN ctor.api_key ELSE env)

\* C5: given the same texts, the same transport outcome for each attempt and
\* the same retry configuration, encode_batch and aencode_batch make the
\* same number of attempts and end the same way: the same embeddings, or an
\* error of the same kind with the same message.
C5_SameOutcome ==
    (calls["c1"].pc = "done" /\ calls["c2"].pc = "done") =>
        /\ calls["c1"].attempts = calls["c2"].attempts
        /\ calls["c1"].outcome.kind = calls["c2"].outcome.kind
        /\ calls["c1"].outcome.value = calls["c2"].outcome.value
        /\ calls["c1"].outcome.err.type = calls["c2"].outcome.err.type
        /\ calls["c1"].outcome.err.msg = calls["c2"].outcome.err.msg

\* One attempt of a call that runs alone, given the transport's outcome.
AttemptAlone(mode, o) ==
    IF mode = "sync" THEN encode_batch(o)
    ELSE LET e == aencode_batch_post(o) IN
         IF e # NoErr THEN Fail(e) ELSE aencode_batch_result(o.body)

\* A call that runs alone against the recorded transport outcomes, from
\* attempt k on: how many attempts it makes and how it ends.
RECURSIVE RunAlone(_, _, _)
RunAlone(mode, trace, k) ==
    LET o == [kind |-> trace[k].kind, status |-> trace[k].status,
              body |-> trace[k].body]
        r == AttemptAlone(mode, o)
        d == RetryDecision(r.err, k)
    IN IF r.ok THEN [attempts |-> k, outcome |-> Returned(r.value)]
       ELSE IF d = "retry"
       THEN IF k < Len(trace) THEN RunAlone(mode, trace, k + 1)
                              ELSE [attempts |-> k, outcome |-> NoOutcome]
       ELSE IF d = "exhausted"
       THEN [attempts |-> k,
             outcome |-> Raised(Err("RetryExhaustedError", "", 0), r.err)]
       ELSE [attempts |-> k, outcome |-> Raised(r.err, NoErr)]

SpecifiedErrorKinds == {"RuntimeError", "RetryExhaustedError", "CancelledError"}

\* C12: a call ends either with the embeddings of its last attempt's
\* response, ordered by index, and no error, or with a raised error of one
\* of the specified kinds and no value.
C12_ResultOrSpecifiedError ==
    \A c \in CallIds :
        calls[c].pc = "done" =>
            \/ /\ calls[c].outcome.kind = "result"
               /\ calls[c].outcome.err = NoErr
               /\ LastEntry(c).err = NoErr
               /\ LastEntry(c).body.hasData
               /\ calls[c].outcome.value =
                      Embeddings(SortedByIndex(LastEntry(c).body.data))
            \/ /\ calls[c].outcome.kind = "error"
               /\ calls[c].outcome.value = <<>>
               /\ calls[c].outcome.err.type \in SpecifiedErrorKinds

\* How many items of data carry the embedding v.
CountInData(data, v) == Cardinality({k \in 1..Len(data) : data[k].embedding = v})
\* How many positions of the result hold the embedding v.
CountInResult(value, v) == Cardinality({k \in 1..Len(value) : value[k] = v})

\* C13: a returned sequence is as long as the response's data, and every
\* embedding occurs in it as many times as items of data carry it: nothing
\* is added, dropped or merged, whatever the items' indices are.
C13_LengthPreserved ==
    \A c \in CallIds :
        (Finished(c) /\ calls[c].outcome.kind = "result") =>
            LET data == LastEntry(c).body.data
                value == calls[c].outcome.value
            IN /\ Len(value) = Len(data)
               /\ IsPermutationData(data, calls[c].texts) =>
                      Len(value) = Len(calls[c].texts)
               /\ \A v \in {data[k].embedding : k \in 1..Len(data)}
                             \cup {value[k] : k \in 1..Len(value)} :
                      CountInData(data, v) = CountInResult(value, v)

\* C13 witness: a call has returned on a response in which two items share
\* an index.
C13_Witness ==
    \E c \in CallIds :
        /\ Finished(c) /\ calls[c].outcome.kind = "result"
        /\ LET data == LastEntry(c).body.data IN
           /\ Len(data) >= 2
           /\ \E j, k \in 1..Len(data) : j # k /\ data[j]["index"] = data[k]["index"]

\* The event loop runs the task of call d for one step.
TaskStep(d) == NextLoop /\ calls'[d] # calls[d]

Suspended(c) == calls[c].mode = "async" /\ calls[c].pc \in SuspensionPoints

\* C14: while an aencode_batch call is suspended, on the network or in the
\* wait between two attempts, the task of any other call on the same thread
\* can take its next step, whatever that step is (start, attempt, read,
\* wait, end).
C14_SuspendedDoesNotBlock ==
    \A c, d \in CallIds :
        (c # d /\ Suspended(c)) => ENABLED TaskStep(d)

\* C14 witness: two aencode_batch calls of one thread are in progress, one
\* in the wait after a failed attempt, the other past its request: one of
\* them has taken steps while the other was suspended.
C14_Witness ==
    \E c, d \in CallIds :
        /\ c # d
        /\ Suspended(c) /\ calls[c].pc = "backoff"
        /\ Suspended(d) /\ calls[d].pc = "awaitJson"

\* C15: a call whose last attempt ended in the transport's timeout has used
\* all its attempts and ends with the exhausted-retry error: the timeout is
\* retried while attempts remain and never reaches the caller by itself.
C15_TimeoutIsTransient ==
    \A c \in CallIds :
        (Finished(c) /\ LastEntry(c).kind = "timeout") =>
            /\ calls[c].attempts = MaxAttempts
            /\ calls[c].outcome.err.type = "RetryExhaustedError"

\* The items of seq that carry the index i, in the order they have in seq.
WithIndex(seq, i) == LET Carries(x) == x["index"] = i IN SelectSeq(seq, Carries)

Ascending(seq) == \A j, k \in 1..Len(seq) : j < k => seq[j]["index"] <= seq[k]["index"]

\* C16: the list a call reads its result from is the response's data in
\* ascending index order, with the items of each index in the order the
\* response had them; data already in ascending order is left as it is, and
\* ordering the ordered list again changes nothing.
C16_StableIdempotent ==
    \A c \in CallIds :
        (Finished(c) /\ calls[c].outcome.kind = "result") =>
            LET data == LastEntry(c).body.data
                sorted_embeddings == SortedByIndex(data)
            IN /\ calls[c].outcome.value = Embeddings(sorted_embeddings)
               /\ Len(sorted_embeddings) = Len(data)
               /\ Ascending(sorted_embeddings)
               /\ \A i \in 0..MaxLen :
                      WithIndex(sorted_embeddings, i) = WithIndex(data, i)
               /\ Ascending(data) => sorted_embeddings = data
               /\ SortedByIndex(sorted_embeddings) = sorted_embeddings

\* C16 witness: a call has returned on a response that is out of order and
\* in which two items with different embeddings share an index.
C16_Witness ==
    \E c \in CallIds :
        /\ Finished(c) /\ calls[c].outcome.kind = "result"
        /\ LET data == LastEntry(c).body.data IN
           /\ ~Ascending(data)
           /\ \E j, k \in 1..Len(data) :
                 /\ j < k
                 /\ data[j]["index"] = data[k]["index"]
                 /\ data[j].embedding # data[k].embedding

InProgress(c) == calls[c].pc \in {"attempt", "awaitPost", "awaitJson", "backoff"}

\* C17: a call never makes more than max_attempts attempts; it waits only
\* after a failed attempt that is not the last one allowed, and the wait is
\* followed by the next attempt (or ended by a cancellation); and, the
\* transport answering and the waits ending, every call in progress
\* eventually ends with a result or an error.
C17_Terminates ==
    /\ [](\A c \in CallIds :
            /\ calls[c].attempts <= MaxAttempts
            /\ calls[c].pc = "backoff" =>
                  /\ calls[c].attempts \in 1..(MaxAttempts - 1)
                  /\ LastEntry(c).err # NoErr
                  /\ calls[c].outcome = NoOutcome)
    /\ [][\A c \in CallIds :
            (calls[c].pc = "backoff" /\ calls'[c] # calls[c]) =>
                \/ calls'[c].pc = "attempt" /\ calls'[c].attempts = calls[c].attempts
                \/ calls'[c].pc = "done" /\ calls'[c].cancelledAt = "backoff"]_vars
    /\ \A c \in CallIds :
            InProgress(c) ~> (calls[c].pc = "done" /\ calls[c].outcome # NoOutcome)

\* C17 witness: an aencode_batch call has ended after exactly max_attempts
\* attempts, every one of them failed, with the exhausted-retry error.
C17_Witness ==
    \E c \in CallIds :
        /\ Finished(c)
        /\ calls[c].attempts = MaxAttempts
        /\ calls[c].outcome.err.type = "RetryExhaustedError"
        /\ \A k \in 1..MaxAttempts : calls[c].hist[k].err # NoErr

\* The error the specification names for a parsed body without `data`
\* (RuntimeError in the code).
MissingDataErrorKinds == {"RuntimeError"}

\* C18: an encode_batch call that got a response ends after that one
\* attempt, by the body alone: with `data` it returns the embeddings in
\* index order whatever the status, without `data` it raises the
\* missing-data error; and no attempt of encode_batch ever raises an
\* HTTP-status error.
C18_SyncIgnoresStatus ==
    \A c \in CallIds :
        calls[c].mode = "sync" =>
            /\ \A k \in 1..Len(calls[c].hist) :
                  calls[c].hist[k].err.type \notin {"HTTPError", "ClientResponseError"}
            /\ (Finished(c) /\ LastEntry(c).kind = "response") =>
                  /\ calls[c].attempts = 1
                  /\ LastEntry(c).body.hasData =>
                        calls[c].outcome =
                            Returned(Embeddings(SortedByIndex(LastEntry(c).body.data)))
                  /\ ~LastEntry(c).body.hasData =>
                        /\ calls[c].outcome.kind = "error"
                        /\ calls[c].outcome.err.type \in MissingDataErrorKinds
                        /\ calls[c].outcome.wrapped = NoErr

\* C19: a call has a session open exactly while an attempt of aencode_batch
\* is between opening it and leaving the `async with` block: none before an
\* attempt starts, none during the wait between attempts, none once the
\* call has ended (result, error or cancellation), and never one for
\* encode_batch.
C19_SessionPerAttempt ==
    \A c \in CallIds :
        calls[c].session <=>
            (calls[c].mode = "async" /\ calls[c].pc \in {"awaitPost", "awaitJson"})

\* C19 witness: an aencode_batch call was cancelled while its second or a
\* later attempt awaited the body, after an earlier attempt had failed and
\* been retried; its session is closed.
C19_Witness ==
    \E c \in CallIds :
        /\ calls[c].mode = "async" /\ calls[c].pc = "done"
        /\ calls[c].cancelledAt = "awaitJson"
        /\ calls[c].attempts >= 2
        /\ ~calls[c].session
====
